---- MODULE Spec2Model ----
(***************************************************************************)
(* Model of recur_scan/features.py: the feature extraction engine that     *)
(* maps (transaction, all_transactions) to a flat feature mapping.         *)
(*                                                                         *)
(* Representation of Python values:                                        *)
(*   - a Transaction is a record [id, user_id, name, amount, date];        *)
(*     name and date are strings, date is the text handed to strptime;     *)
(*   - an amount is an integer number of cents c and stands for the        *)
(*     binary64 float nearest to c/100 (what the literal c/100 denotes);   *)
(*   - a datetime is [year, month, day, ordinal], ordinal being its        *)
(*     proleptic Gregorian ordinal (date.toordinal()), which orders it;    *)
(*   - a float computed by a division, a sum or a difference is the exact  *)
(*     rational [num, den] (its rounding is not tracked); the two float    *)
(*     comparisons whose outcome depends on rounding (lines 87 and 207)    *)
(*     are computed with the binary64 rounding errors of their operands;   *)
(*   - a float computed by a square root is [radicand |-> rational];       *)
(*   - a raised exception is the record [exc |-> <exception name>].        *)
(***************************************************************************)
EXTENDS Integers, Sequences, FiniteSets, TLC

VARIABLES transaction, all_transactions, called, pc, result

vars == <<transaction, all_transactions, called, pc, result>>

(***************************************************************************)
(* Arithmetic helpers                                                      *)
(***************************************************************************)
Abs(x) == IF x < 0 THEN -x ELSE x

RECURSIVE GCD(_, _)
GCD(a, b) == IF b = 0 THEN a ELSE GCD(b, a % b)

RECURSIVE Pow2(_)
Pow2(n) == IF n = 0 THEN 1 ELSE 2 * Pow2(n - 1)

RECURSIVE Pow2Mod(_, _)
Pow2Mod(n, m) == IF n = 0 THEN 1 % m ELSE (2 * Pow2Mod(n - 1, m)) % m

\* The float n/d for integers n, d with d # 0, kept as a reduced fraction.
Rat(n, d) ==
    LET g == GCD(Abs(n), Abs(d))
        s == IF d < 0 THEN -1 ELSE 1
    IN [num |-> (s * n) \div g, den |-> (s * d) \div g]

\* The literal 0.0.
Zero == [num |-> 0, den |-> 1]

\* The float sqrt(r) of a non-negative rational r.
Sqrt(r) == [radicand |-> r]

RaiseExc(e) == [exc |-> e]

IsExc(v) == "exc" \in DOMAIN v

\* Python's a / b on numbers: ZeroDivisionError when b is zero.
TrueDiv(a, b) == IF b = 0 THEN RaiseExc("ZeroDivisionError") ELSE Rat(a, b)

RECURSIVE sum(_)
sum(s) == IF s = <<>> THEN 0 ELSE Head(s) + sum(Tail(s))

RECURSIVE min(_)
min(s) == IF Len(s) = 1 THEN s[1]
          ELSE LET m == min(Tail(s)) IN IF s[1] <= m THEN s[1] ELSE m

RECURSIVE max(_)
max(s) == IF Len(s) = 1 THEN s[1]
          ELSE LET m == max(Tail(s)) IN IF s[1] >= m THEN s[1] ELSE m

\* sorted() on a list of datetimes.
sorted(s) == SortSeq(s, LAMBDA a, b : a.ordinal < b.ordinal)

\* statistics.mean: StatisticsError on an empty sequence.
mean(s) == IF Len(s) = 0 THEN RaiseExc("StatisticsError") ELSE Rat(sum(s), Len(s))

\* statistics.stdev (sample standard deviation): StatisticsError below two
\* data points; variance = (n*sum(x^2) - sum(x)^2) / (n*(n-1)).
stdev(s) ==
    IF Len(s) < 2 THEN RaiseExc("StatisticsError")
    ELSE LET n  == Len(s)
             sq == [i \in 1..n |-> s[i] * s[i]]
         IN Sqrt(Rat(n * sum(sq) - sum(s) * sum(s), n * (n - 1)))

\* (sum((x - avg) ** 2 for x in xs) / len(xs)) ** 0.5 with avg = sum(xs)/len(xs).
PopulationStd(s) ==
    LET n  == Len(s)
        sq == [i \in 1..n |-> s[i] * s[i]]
    IN Sqrt(Rat(n * sum(sq) - sum(s) * sum(s), n * n))

(***************************************************************************)
(* datetime.datetime.strptime(text, "%Y-%m-%d") and date arithmetic        *)
(***************************************************************************)
Digits == {"0", "1", "2", "3", "4", "5", "6", "7", "8", "9"}

DigitValue == ("0" :> 0) @@ ("1" :> 1) @@ ("2" :> 2) @@ ("3" :> 3) @@ ("4" :> 4)
              @@ ("5" :> 5) @@ ("6" :> 6) @@ ("7" :> 7) @@ ("8" :> 8) @@ ("9" :> 9)

CharAt(s, i) == SubSeq(s, i, i)

RECURSIVE ParseInt(_)
ParseInt(s) ==
    IF Len(s) = 0 THEN 0
    ELSE 10 * ParseInt(SubSeq(s, 1, Len(s) - 1)) + DigitValue[CharAt(s, Len(s))]

IsLeap(y) == (y % 4 = 0) /\ ((y % 100 # 0) \/ (y % 400 = 0))

DaysInMonth(y, m) ==
    IF m = 2 THEN (IF IsLeap(y) THEN 29 ELSE 28)
    ELSE IF m \in {4, 6, 9, 11} THEN 30 ELSE 31

RECURSIVE DaysBeforeMonth(_, _)
DaysBeforeMonth(y, m) ==
    IF m = 1 THEN 0 ELSE DaysBeforeMonth(y, m - 1) + DaysInMonth(y, m - 1)

DaysBeforeYear(y) ==
    LET p == y - 1 IN p * 365 + (p \div 4) - (p \div 100) + (p \div 400)

YearOf(text)  == ParseInt(SubSeq(text, 1, 4))
MonthOf(text) == ParseInt(SubSeq(text, 6, 7))
DayOf(text)   == ParseInt(SubSeq(text, 9, 10))

\* The texts strptime accepts among zero-padded YYYY-MM-DD texts.
ValidDate(text) ==
    /\ Len(text) = 10
    /\ CharAt(text, 5) = "-"
    /\ CharAt(text, 8) = "-"
    /\ \A i \in {1, 2, 3, 4, 6, 7, 9, 10} : CharAt(text, i) \in Digits
    /\ YearOf(text) >= 1
    /\ MonthOf(text) \in 1..12
    /\ DayOf(text) >= 1
    /\ DayOf(text) <= DaysInMonth(YearOf(text), MonthOf(text))

\* Ordinal of the datetime strptime returns (0001-01-01 is day 1).
ToOrdinal(text) ==
    DaysBeforeYear(YearOf(text)) + DaysBeforeMonth(YearOf(text), MonthOf(text)) + DayOf(text)

\* strptime raises ValueError on a text that is not a calendar date, and
\* otherwise returns the datetime.
StrptimeRaises(text) == ~ValidDate(text)

strptime(text) ==
    [year |-> YearOf(text), month |-> MonthOf(text), day |-> DayOf(text),
     ordinal |-> ToOrdinal(text)]

\* datetime.weekday(): Monday = 0 .. Sunday = 6.
Weekday(ord) == (ord + 6) % 7

\* datetime.isocalendar()[1], the ISO 8601 week number.
IsoWeek1Monday(y) ==
    LET firstDay     == DaysBeforeYear(y) + 1
        firstWeekday == Weekday(firstDay)
        week1Monday  == firstDay - firstWeekday
    IN IF firstWeekday > 3 THEN week1Monday + 7 ELSE week1Monday

IsoWeek(d) ==
    LET y    == d.year
        ord  == d.ordinal
        week == (ord - IsoWeek1Monday(y)) \div 7
    IN IF ord < IsoWeek1Monday(y)
       THEN (ord - IsoWeek1Monday(y - 1)) \div 7 + 1
       ELSE IF week >= 52 /\ ord >= IsoWeek1Monday(y + 1) THEN 1
       ELSE week + 1

\* datetime - timedelta(days = n) raises OverflowError below datetime.min
\* (ordinal 1) and otherwise returns the datetime n days earlier.
MinusDaysRaises(ord, n) == ord - n < 1

MinusDays(ord, n) == ord - n

(***************************************************************************)
(* binary64 arithmetic on amounts.  The amount c (cents) is the float      *)
(* fl(c/100) = c/100 + RoundErr(c) / (100 * 2^BinExp(c)), where BinExp(c)  *)
(* is the exponent e with 2^52 <= |c|/100 * 2^e < 2^53 and the rounding    *)
(* is to nearest, ties to even.                                            *)
(***************************************************************************)
RECURSIVE FloorLog2Up(_, _)
\* Largest k >= 0 with 2^k * d <= n, for n >= d > 0.
FloorLog2Up(n, d) == IF 2 * d <= n THEN 1 + FloorLog2Up(n, 2 * d) ELSE 0

RECURSIVE FloorLog2Down(_, _)
\* Smallest j >= 0 with d <= n * 2^j, for 0 < n.
FloorLog2Down(n, d) == IF d <= n THEN 0 ELSE 1 + FloorLog2Down(2 * n, d)

\* Binary exponent of the positive rational n/d: e with 2^52 <= n/d * 2^e < 2^53.
BinExpRat(n, d) == IF n >= d THEN 52 - FloorLog2Up(n, d) ELSE 52 + FloorLog2Down(n, d)

\* Numerator r of fl(n/d) - n/d = r / (d * 2^e), for the positive rational n/d.
RoundErrRat(n, d) ==
    LET e   == BinExpRat(n, d)
        rem == ((n % d) * Pow2Mod(e, d)) % d
        \* parity of the quotient floor(n * 2^e / d)
        odd == ((n % (2 * d)) * Pow2Mod(e, 2 * d)) % (2 * d) >= d
    IN IF 2 * rem < d THEN -rem
       ELSE IF 2 * rem > d THEN d - rem
       ELSE IF odd THEN d - rem ELSE -rem

BinExp(c) == BinExpRat(Abs(c), 100)

RoundErr(c) == IF c = 0 THEN 0
               ELSE IF c < 0 THEN -RoundErrRat(-c, 100) ELSE RoundErrRat(c, 100)

\* int(amt): truncation towards zero, in whole units.
IntPart(c) == IF c >= 0 THEN c \div 100 ELSE -((-c) \div 100)

\* amt - int(amt) for amt = fl(c/100), compared with the literal lit/100
\* (0 < lit < 100), as the sign of (amt - int(amt)) - fl(lit/100): -1, 0
\* or 1.  The subtraction is exact in binary64 (the difference of a float
\* and its integer part needs no more bits than the float), so the value is
\* (c - 100*int)/100 + RoundErr(c)/(100*2^BinExp(c)).
FracCompare(c, lit) ==
    LET f == c - 100 * IntPart(c)
    IN IF f < lit THEN -1
       ELSE IF f > lit THEN 1
       ELSE LET ec  == BinExp(c)
                el  == BinExpRat(lit, 100)
                lhs == RoundErr(c) * Pow2(el - ec)
                rhs == RoundErrRat(lit, 100)
            IN IF lhs < rhs THEN -1 ELSE IF lhs > rhs THEN 1 ELSE 0

\* max_amount <= min_amount * 1.02 for max_amount = fl(hi/100) and
\* min_amount = fl(lo/100), hi >= lo, the product rounded to nearest.  Away
\* from 100*hi = 102*lo the rounding errors (below 2^-50 relative) cannot
\* change the exact comparison; on that line the exact product is compared
\* with the midpoint below max_amount, in units of 1/(10000 * 2^(sh+BinExp(lo))).
LeqTimes102(hi, lo) ==
    IF 100 * hi < 102 * lo THEN TRUE
    ELSE IF 100 * hi > 102 * lo THEN FALSE
    ELSE IF lo = 0 THEN TRUE
    ELSE LET ea   == BinExp(lo)
             eh   == BinExp(hi)
             da   == RoundErr(lo)
             db   == RoundErrRat(102, 100)
             dh   == RoundErr(hi)
             sh   == IF ea > 52 THEN ea ELSE 52
             x    == lo * db * Pow2(sh - 52) + 102 * da * Pow2(sh - ea)
                     - 100 * dh * Pow2(sh - eh) + 5000 * Pow2(sh - eh)
             even == (((hi % 200) * Pow2Mod(eh, 200)) + dh) % 200 = 0
         IN IF x > 0 THEN TRUE
            ELSE IF x < 0 THEN FALSE
            ELSE IF da * db > 0 THEN TRUE
            ELSE IF da * db < 0 THEN FALSE
            ELSE even

(***************************************************************************)
(* str.lower() and the substring test `word in text`                       *)
(***************************************************************************)
LowerOf == ("A" :> "a") @@ ("B" :> "b") @@ ("C" :> "c") @@ ("D" :> "d") @@ ("E" :> "e")
           @@ ("F" :> "f") @@ ("G" :> "g") @@ ("H" :> "h") @@ ("I" :> "i") @@ ("J" :> "j")
           @@ ("K" :> "k") @@ ("L" :> "l") @@ ("M" :> "m") @@ ("N" :> "n") @@ ("O" :> "o")
           @@ ("P" :> "p") @@ ("Q" :> "q") @@ ("R" :> "r") @@ ("S" :> "s") @@ ("T" :> "t")
           @@ ("U" :> "u") @@ ("V" :> "v") @@ ("W" :> "w") @@ ("X" :> "x") @@ ("Y" :> "y")
           @@ ("Z" :> "z")

RECURSIVE lower(_)
lower(text) ==
    IF Len(text) = 0 THEN ""
    ELSE LET c == CharAt(text, 1)
         IN (IF c \in DOMAIN LowerOf THEN LowerOf[c] ELSE c)
            \o lower(SubSeq(text, 2, Len(text)))

Contains(text, word) ==
    \E i \in 1..(Len(text) - Len(word) + 1) : SubSeq(text, i, i + Len(word) - 1) = word

\* int(b) of a bool.
int(b) == IF b THEN 1 ELSE 0

\* [t for t in all_transactions if t.name == transaction.name]
SameName(t, all) == SelectSeq(all, LAMBDA x : x.name = t.name)

\* Some date of the list makes strptime raise.
AnyDateRaises(txs) == \E i \in 1..Len(txs) : StrptimeRaises(txs[i].date)

\* [datetime.datetime.strptime(t.date, "%Y-%m-%d") for t in txs]
ParsedDates(txs) == [i \in 1..Len(txs) |-> strptime(txs[i].date)]

\* {**a, **b}: on a shared key the later mapping wins.
Merge(a, b) == b @@ a

(***************************************************************************)
(* The feature functions of features.py                                    *)
(***************************************************************************)
get_n_transactions_same_amount(t, all) ==
    Len(SelectSeq(all, LAMBDA x : x.amount = t.amount))

\* Faulty variant of get_percent_transactions_same_amount: the empty-history
\* guard is missing.
get_percent_transactions_same_amount_unguarded(t, all) ==
    LET n_same_amount == Len(SelectSeq(all, LAMBDA x : x.amount = t.amount))
    IN TrueDiv(n_same_amount, Len(all))

get_percent_transactions_same_amount(t, all) ==
    IF Len(all) = 0 THEN Zero
    ELSE LET n_same_amount == Len(SelectSeq(all, LAMBDA x : x.amount = t.amount))
         IN TrueDiv(n_same_amount, Len(all))

\* The record returned below two same-vendor transactions.
RecurrencePatternDefaults ==
    [is_biweekly |-> 0,
     is_semimonthly |-> 0,
     is_monthly |-> 0,
     is_bimonthly |-> 0,
     is_quarterly |-> 0,
     is_annual |-> 0,
     avg_days_between_transactions |-> Zero,
     min_days_between_transactions |-> 0,
     max_days_between_transactions |-> 0,
     std_days_between_transactions |-> Sqrt(Zero)]

\* Faulty variant of TooFewForPatterns: the threshold is one, not two.
TooFewForPatterns_below_one(merchant_transactions) == Len(merchant_transactions) < 1

\* if len(merchant_transactions) < 2
TooFewForPatterns(merchant_transactions) == Len(merchant_transactions) < 2

\* Faulty variant of SemimonthlyGap: the 14-day gap is left out.
SemimonthlyGap_without_14(d) == d \in {15, 16, 17}

\* d in {15, 16, 14, 17}
SemimonthlyGap(d) == d \in {15, 16, 14, 17}

get_time_based_recurrence_patterns(t, all) ==
    LET merchant_transactions == SameName(t, all)
    IN IF TooFewForPatterns(merchant_transactions)
       THEN RecurrencePatternDefaults
       ELSE IF AnyDateRaises(merchant_transactions) THEN RaiseExc("ValueError")
       ELSE LET dates      == sorted(ParsedDates(merchant_transactions))
                date_diffs == [i \in 1..(Len(dates) - 1) |->
                                  dates[i + 1].ordinal - dates[i].ordinal]
                avg_days   == mean(date_diffs)
                min_days   == min(date_diffs)
                max_days   == max(date_diffs)
                std_days   == IF Len(date_diffs) > 1 THEN stdev(date_diffs) ELSE Sqrt(Zero)
                any(P(_))  == \E i \in 1..Len(date_diffs) : P(date_diffs[i])
            IN IF IsExc(avg_days) THEN avg_days
               ELSE IF IsExc(std_days) THEN std_days
               ELSE [is_biweekly |-> int(Cardinality({i \in 1..Len(date_diffs) : date_diffs[i] = 14}) > 0),
                     is_semimonthly |-> int(any(SemimonthlyGap)),
                     is_monthly |-> int(any(LAMBDA d : 27 <= d /\ d <= 31)),
                     is_bimonthly |-> int(any(LAMBDA d : 55 <= d /\ d <= 65)),
                     is_quarterly |-> int(any(LAMBDA d : 85 <= d /\ d <= 95)),
                     is_annual |-> int(any(LAMBDA d : 360 <= d /\ d <= 370)),
                     avg_days_between_transactions |-> avg_days,
                     min_days_between_transactions |-> min_days,
                     max_days_between_transactions |-> max_days,
                     std_days_between_transactions |-> std_days]

always_recurring_vendors ==
    {"netflix", "spotify", "microsoft", "amazon prime", "at&t", "verizon",
     "spectrum", "geico", "hugo insurance"}

\* vendor_specific_rules[vendor](amt), for a vendor of the table.
vendor_specific_rules(vendor, amt) ==
    CASE vendor = "apple"        -> FracCompare(amt, 98) >= 0 /\ FracCompare(amt, 99) <= 0
      [] vendor = "brigit"       -> amt \in {999, 1499}
      [] vendor = "cleo ai"      -> amt \in {399, 699}
      [] vendor = "credit genie" -> amt \in {349, 499}

validate_recurring_transaction(t) ==
    LET vendor_name == lower(t.name)
        amount      == t.amount
    IN IF vendor_name \in always_recurring_vendors THEN TRUE
       ELSE IF vendor_name \in {"apple", "brigit", "cleo ai", "credit genie"}
            THEN vendor_specific_rules(vendor_name, amount)
            ELSE TRUE

known_subscription_tiers(vendor, amt) ==
    CASE vendor = "netflix" /\ amt = 899  -> "Basic"
      [] vendor = "netflix" /\ amt = 1549 -> "Standard"
      [] vendor = "netflix" /\ amt = 1999 -> "Premium"
      [] vendor = "spotify" /\ amt = 999  -> "Individual"
      [] vendor = "spotify" /\ amt = 1299 -> "Duo"
      [] vendor = "spotify" /\ amt = 1599 -> "Family"
      [] vendor = "disney+" /\ amt = 799  -> "Basic"
      [] vendor = "disney+" /\ amt = 1399 -> "Premium"
      [] OTHER -> "Unknown"

get_vendor_subscription_features(t) ==
    LET major_subscriptions  == {"netflix", "spotify", "disney+", "hulu", "amazon prime",
                                 "paramount+", "apple music"}
        telecom_or_insurance == {"at&t", "verizon", "t-mobile", "geico", "progressive",
                                 "state farm"}
        utility_vendors      == {"duke energy", "con edison", "national grid", "pg&e",
                                 "water company", "gas company"}
        vendor_name          == lower(t.name)
        amount               == t.amount
    IN [is_major_subscription |-> int(vendor_name \in major_subscriptions),
        is_telecom_or_insurance |-> int(vendor_name \in telecom_or_insurance),
        is_utility_bill |-> int(vendor_name \in utility_vendors),
        subscription_tier |-> known_subscription_tiers(vendor_name, amount)]

refund_keywords == {"refund", "reversal", "canceled", "chargeback"}

\* Faulty variant of RefundMatch: the name is not lower-cased.
RefundMatch_case_sensitive(t, x) ==
    /\ t.amount = -x.amount
    /\ \E word \in refund_keywords : Contains(x.name, word)

\* transaction.amount == -t.amount and any(word in t.name.lower() for word in refund_keywords)
RefundMatch(t, x) ==
    /\ t.amount = -x.amount
    /\ \E word \in refund_keywords : Contains(lower(x.name), word)

\* Faulty variant of three_months_ago: timedelta(weeks=90).
three_months_ago_in_weeks(date_obj) == MinusDays(date_obj.ordinal, 90 * 7)

\* date_obj - datetime.timedelta(days=90)
three_months_ago(date_obj) == MinusDays(date_obj.ordinal, 90)

\* date_obj - datetime.timedelta(days=180)
six_months_ago(date_obj) == MinusDays(date_obj.ordinal, 180)

get_additional_recurring_indicators(t, all) ==
    LET merchant_transactions == SameName(t, all)
    IN IF StrptimeRaises(t.date) THEN RaiseExc("ValueError")
       ELSE IF Len(merchant_transactions) = 0
       THEN [n_similar_transactions_last_3_months |-> 0,
             n_similar_transactions_last_6_months |-> 0,
             transaction_day_consistency |-> Sqrt(Zero),
             is_first_transaction_with_vendor |-> 1,
             is_canceled_or_refunded |-> 0]
       ELSE IF AnyDateRaises(merchant_transactions) THEN RaiseExc("ValueError")
       ELSE IF \/ MinusDaysRaises(strptime(t.date).ordinal, 90)
               \/ MinusDaysRaises(strptime(t.date).ordinal, 180)
       THEN RaiseExc("OverflowError")
       ELSE LET date_obj         == strptime(t.date)
                dates            == sorted(ParsedDates(merchant_transactions))
                transactions_last_3_months ==
                    SelectSeq(dates, LAMBDA d : d.ordinal >= three_months_ago(date_obj))
                transactions_last_6_months ==
                    SelectSeq(dates, LAMBDA d : d.ordinal >= six_months_ago(date_obj))
                transaction_days == [i \in 1..Len(dates) |-> dates[i].day]
                day_std_dev      == IF Len(transaction_days) > 1
                                    THEN PopulationStd(transaction_days)
                                    ELSE Sqrt(Zero)
                is_first_transaction    == IF date_obj = dates[1] THEN 1 ELSE 0
                is_canceled_or_refunded ==
                    \E i \in 1..Len(all) : RefundMatch(t, all[i])
            IN [n_similar_transactions_last_3_months |-> Len(transactions_last_3_months),
                n_similar_transactions_last_6_months |-> Len(transactions_last_6_months),
                transaction_day_consistency |-> day_std_dev,
                is_first_transaction_with_vendor |-> is_first_transaction,
                is_canceled_or_refunded |-> int(is_canceled_or_refunded)]

get_day_of_week_features(t, all) ==
    LET merchant_transactions == SameName(t, all)
    IN IF StrptimeRaises(t.date) \/ AnyDateRaises(merchant_transactions)
       THEN RaiseExc("ValueError")
       ELSE LET date_obj == strptime(t.date)
                dates    == sorted(ParsedDates(merchant_transactions))
                days_since_last ==
                    IF Len(dates) > 1
                    THEN date_obj.ordinal - dates[Len(dates) - 1].ordinal
                    ELSE 0
            IN [day_of_month |-> date_obj.day,
                weekday |-> Weekday(date_obj.ordinal),
                week_of_year |-> IsoWeek(date_obj),
                is_weekend |-> int(Weekday(date_obj.ordinal) >= 5),
                days_since_last_transaction |-> days_since_last]

\* Faulty variant of SmallSubscription: the bounds are exclusive.
SmallSubscription_exclusive(amount) == 399 < amount /\ amount < 1499

\* 3.99 <= transaction.amount <= 14.99
SmallSubscription(amount) == 399 <= amount /\ amount <= 1499

\* 15 <= transaction.amount <= 49.99
MidSizedSubscription(amount) == 1500 <= amount /\ amount <= 4999

\* transaction.amount >= 50
LargeRecurringPayment(amount) == amount >= 5000

get_amount_based_features(t, all) ==
    LET vendor_transactions == SameName(t, all)
    IN IF Len(vendor_transactions) = 0
       THEN [is_fixed_amount_recurring |-> 0,
             amount_fluctuation_range |-> Zero,
             is_small_subscription |-> 0,
             is_mid_sized_subscription |-> 0,
             is_large_recurring_payment |-> 0]
       ELSE LET amounts    == [i \in 1..Len(vendor_transactions) |-> vendor_transactions[i].amount]
                min_amount == min(amounts)
                max_amount == max(amounts)
            IN [is_fixed_amount_recurring |-> int(LeqTimes102(max_amount, min_amount)),
                amount_fluctuation_range |-> Rat(max_amount - min_amount, 100),
                is_small_subscription |-> int(SmallSubscription(t.amount)),
                is_mid_sized_subscription |-> int(MidSizedSubscription(t.amount)),
                is_large_recurring_payment |-> int(LargeRecurringPayment(t.amount))]

\* Faulty variant of TemporalDefaults: transaction_frequency is missing.
TemporalDefaults_missing_key ==
    [time_since_first_transaction |-> 0]

\* The record returned below two same-vendor transactions.
TemporalDefaults ==
    [time_since_first_transaction |-> 0,
     transaction_frequency |-> Zero]

get_temporal_features(t, all) ==
    LET merchant_transactions == SameName(t, all)
    IN IF AnyDateRaises(merchant_transactions) THEN RaiseExc("ValueError")
       ELSE LET dates == sorted(ParsedDates(merchant_transactions))
            IN IF Len(dates) < 2
               THEN TemporalDefaults
               ELSE IF StrptimeRaises(t.date) THEN RaiseExc("ValueError")
               ELSE LET first_transaction_date == dates[1]
                        date_obj               == strptime(t.date)
                        time_since_first       == date_obj.ordinal - first_transaction_date.ordinal
                        total_days             == dates[Len(dates)].ordinal - dates[1].ordinal
                        transaction_frequency  == IF total_days = 0 THEN Zero
                                                  ELSE TrueDiv(Len(dates) * 30, total_days)
                    IN IF IsExc(transaction_frequency) THEN transaction_frequency
                       ELSE [time_since_first_transaction |-> time_since_first,
                             transaction_frequency |-> transaction_frequency]

vendor_categories ==
    <<[category |-> "streaming", vendors |-> {"netflix", "spotify", "disney+", "hulu", "amazon prime"}],
      [category |-> "telecom",   vendors |-> {"at&t", "verizon", "t-mobile"}],
      [category |-> "utilities", vendors |-> {"duke energy", "con edison", "national grid"}]>>

get_vendor_specific_features(t, all) ==
    LET vendor_transactions == SameName(t, all)
        vendor_popularity   == Len(vendor_transactions)
        hits                == {i \in 1..Len(vendor_categories) :
                                   lower(t.name) \in vendor_categories[i].vendors}
        vendor_category     == IF hits = {} THEN "other"
                               ELSE vendor_categories[CHOOSE i \in hits : \A j \in hits : i <= j].category
    IN [vendor_popularity |-> vendor_popularity,
        vendor_category |-> vendor_category]

get_user_behavior_features(t, all) ==
    LET user_transactions == SelectSeq(all, LAMBDA x : x.user_id = t.user_id)
    IN IF Len(user_transactions) = 0
       THEN [user_avg_transaction_amount |-> Zero,
             user_total_spending |-> Zero,
             user_subscription_count |-> 0]
       ELSE LET amounts == [i \in 1..Len(user_transactions) |-> user_transactions[i].amount]
                mean_cents                  == mean(amounts)
                user_avg_transaction_amount == IF IsExc(mean_cents) THEN mean_cents
                                               ELSE Rat(mean_cents.num, 100 * mean_cents.den)
                user_total_spending         == Rat(sum(amounts), 100)
                user_subscription_count     ==
                    Len(SelectSeq(user_transactions,
                                  LAMBDA x : x.name \in {"netflix", "spotify", "disney+", "hulu",
                                                         "amazon prime", "at&t", "verizon",
                                                         "t-mobile"}))
            IN IF IsExc(user_avg_transaction_amount) THEN user_avg_transaction_amount
               ELSE [user_avg_transaction_amount |-> user_avg_transaction_amount,
                     user_total_spending |-> user_total_spending,
                     user_subscription_count |-> user_subscription_count]

get_refund_features(t, all) ==
    LET refund_transactions == SelectSeq(all, LAMBDA x : x.amount = -t.amount)
    IN IF Len(refund_transactions) = 0
       THEN [refund_rate |-> Zero,
             refund_time_lag |-> Zero]
       ELSE LET refund_rate == TrueDiv(Len(refund_transactions), Len(all))
            IN IF IsExc(refund_rate) THEN refund_rate
               ELSE IF AnyDateRaises(refund_transactions) \/ StrptimeRaises(t.date)
               THEN RaiseExc("ValueError")
               ELSE LET refund_time_lags ==
                            [i \in 1..Len(refund_transactions) |->
                                strptime(refund_transactions[i].date).ordinal
                                - strptime(t.date).ordinal]
                        avg_refund_time_lag == IF Len(refund_time_lags) > 0
                                               THEN mean(refund_time_lags)
                                               ELSE Zero
                    IN IF IsExc(avg_refund_time_lag) THEN avg_refund_time_lag
                       ELSE [refund_rate |-> refund_rate,
                             refund_time_lag |-> avg_refund_time_lag]

get_features(t, all) ==
    LET percent == get_percent_transactions_same_amount(t, all)
        parts   ==
            <<IF IsExc(percent) THEN percent
              ELSE [n_transactions_same_amount |-> get_n_transactions_same_amount(t, all),
                    percent_transactions_same_amount |-> percent],
              get_time_based_recurrence_patterns(t, all),
              get_vendor_subscription_features(t),
              get_amount_based_features(t, all),
              get_additional_recurring_indicators(t, all),
              get_day_of_week_features(t, all),
              get_temporal_features(t, all),
              get_vendor_specific_features(t, all),
              get_user_behavior_features(t, all),
              get_refund_features(t, all),
              [is_valid_recurring_transaction |-> int(validate_recurring_transaction(t))]>>
        raising == {i \in 1..Len(parts) : IsExc(parts[i])}
        merged[i \in 0..Len(parts)] ==
            IF i = 0 THEN <<>> ELSE Merge(merged[i - 1], parts[i])
    IN IF raising # {}
       THEN parts[CHOOSE i \in raising : \A j \in raising : i <= j]
       ELSE merged[Len(parts)]

(***************************************************************************)
(* The state machine: an input (transaction, all_transactions) is given    *)
(* and one of the two entry points is called on it.  pc is "input" before  *)
(* the call, "returned" once it returned the mapping `result`, "raised"    *)
(* once it raised the exception `result`.                                  *)
(***************************************************************************)
\* Bound on the length of all_transactions.
MaxHist == 3

Transaction(id, user_id, name, amount, date) ==
    [id |-> id, user_id |-> user_id, name |-> name, amount |-> amount, date |-> date]

WithId(p, id) == Transaction(id, p.user_id, p.name, p.amount, p.date)

\* The histories of at most n entries over the pool, ids being positions.
Histories(Pool, n) ==
    UNION {{[i \in 1..k |-> WithId(h[i], i)] : h \in [1..k -> Pool]} : k \in 0..n}

\* The input is a history over HistPool and either one of its entries or a
\* transaction of FreshPool that is not part of it (id 0).
InitWith(HistPool, FreshPool) ==
    /\ all_transactions \in Histories(HistPool, MaxHist)
    /\ transaction \in {all_transactions[i] : i \in 1..Len(all_transactions)}
                       \cup {WithId(p, 0) : p \in FreshPool}
    /\ called = "none"
    /\ pc = "input"
    /\ result = <<>>

Finish(name, r) ==
    /\ called' = name
    /\ result' = r
    /\ pc' = IF IsExc(r) THEN "raised" ELSE "returned"
    /\ UNCHANGED <<transaction, all_transactions>>

CallGetFeatures ==
    /\ pc = "input"
    /\ Finish("get_features", get_features(transaction, all_transactions))

CallGetTimeBasedRecurrencePatterns ==
    /\ pc = "input"
    /\ Finish("get_time_based_recurrence_patterns",
              get_time_based_recurrence_patterns(transaction, all_transactions))

Next == CallGetFeatures \/ CallGetTimeBasedRecurrencePatterns

(***************************************************************************)
(* Input domains.  Each specification draws its inputs from a small pool   *)
(* chosen for the functions it exercises.                                  *)
(***************************************************************************)
Entry(user_id, name, amount, date) ==
    [user_id |-> user_id, name |-> name, amount |-> amount, date |-> date]

\* Counts, defaults and exceptions: dates 3, 6 and 8 months apart, equal
\* dates, negated and zero amounts, and a text that is not a calendar date.
CountsPool ==
    {Entry("u1", "Acme", 2000, "2024-09-01"),
     Entry("u1", "Acme", 2000, "2024-05-01"),
     Entry("u1", "Acme", -2000, "2024-01-01"),
     Entry("u1", "Acme", 0, "2024-09-01"),
     Entry("u2", "Other", -2000, "2024-09-10"),
     Entry("u1", "Acme", 2000, "2024-02-30"),
     Entry("u2", "Other", 2000, "2024-02-30")}

CountsFresh ==
    {Entry("u1", "Acme", 2000, "2024-09-01"),
     Entry("u3", "New", 0, "2024-09-01"),
     Entry("u1", "Acme", 2000, "2024-13-01")}

InitCounts == InitWith(CountsPool, CountsFresh)

SpecCounts == InitCounts /\ [][Next]_vars

\* Cadence: same-vendor dates whose gaps fall in and between the windows.
CadencePool ==
    {Entry("u1", "Acme", 2000, "2024-01-01"),
     Entry("u1", "Acme", 2000, "2024-01-15"),
     Entry("u1", "Acme", 2000, "2024-01-29"),
     Entry("u1", "Acme", 2000, "2024-01-31"),
     Entry("u1", "Acme", 2000, "2024-03-01"),
     Entry("u1", "Acme", 2000, "2024-04-01"),
     Entry("u1", "Acme", 2000, "2025-01-01"),
     Entry("u1", "Other", 2000, "2024-01-15")}

CadenceFresh ==
    {Entry("u1", "Acme", 2000, "2024-01-29"),
     Entry("u1", "New", 2000, "2024-01-29")}

InitCadence == InitWith(CadencePool, CadenceFresh)

SpecCadence == InitCadence /\ [][Next]_vars

\* Refunds: negated amounts with and without a refund keyword in the name.
RefundPool ==
    {Entry("u1", "Acme", 2000, "2024-01-01"),
     Entry("u1", "Acme", -2000, "2024-01-05"),
     Entry("u1", "Refund - Acme", -2000, "2024-01-10"),
     Entry("u1", "Refund - Acme", 2000, "2024-01-10"),
     Entry("u1", "ACME CHARGEBACK", -2000, "2024-01-12"),
     Entry("u1", "Other", -2000, "2024-01-10"),
     Entry("u1", "Other", 2000, "2024-01-10")}

RefundFresh ==
    {Entry("u1", "Acme", 2000, "2024-01-01"),
     Entry("u1", "New", 2000, "2024-01-01"),
     Entry("u1", "New", -2000, "2024-01-01")}

InitRefund == InitWith(RefundPool, RefundFresh)

SpecRefund == InitRefund /\ [][Next]_vars

\* Amounts: the bucket boundaries, equal amounts of each sign, and amounts
\* 1.5% and 2.5% apart.
AmountPool ==
    {Entry("u1", "Acme", -2000, "2024-01-01"),
     Entry("u1", "Acme", 0, "2024-01-01"),
     Entry("u1", "Acme", 1499, "2024-01-01"),
     Entry("u1", "Acme", 2000, "2024-01-01"),
     Entry("u1", "Acme", 2030, "2024-01-01"),
     Entry("u1", "Acme", 2050, "2024-01-01"),
     Entry("u1", "Acme", 5000, "2024-01-01"),
     Entry("u1", "Other", 399, "2024-01-01")}

AmountFresh ==
    {Entry("u1", "New", 399, "2024-01-01"),
     Entry("u1", "New", 2000, "2024-01-01"),
     Entry("u1", "New", 5000, "2024-01-01"),
     Entry("u1", "Acme", 1500, "2024-01-01")}

InitAmount == InitWith(AmountPool, AmountFresh)

SpecAmount == InitAmount /\ [][Next]_vars

\* Vendor rules: one transaction, alone or as the only history entry.
VendorNames ==
    {"apple", "Apple", "netflix", "Netflix", "hugo insurance", "brigit",
     "cleo ai", "credit genie", "Acme", "apple music"}

VendorAmounts ==
    {-499, 0, 98, 99, 199, 349, 399, 499, 500, 998, 999, 1499, 1549, 1999, 12999}

InitVendor ==
    /\ \E name \in VendorNames, amount \in VendorAmounts, id \in {0, 1} :
          /\ transaction = Transaction(id, "u1", name, amount, "2024-01-01")
          /\ all_transactions = IF id = 0 THEN <<>> ELSE <<transaction>>
    /\ called = "none"
    /\ pc = "input"
    /\ result = <<>>

SpecVendor == InitVendor /\ [][Next]_vars

Spec == SpecCounts

(***************************************************************************)
(* Properties                                                              *)
(***************************************************************************)
Returned(fn) == called = fn /\ pc = "returned"

\* Positions of the history entries whose name equals the transaction's.
SameVendorIdx ==
    {i \in 1..Len(all_transactions) : all_transactions[i].name = transaction.name}

OrdinalAt(i) == ToOrdinal(all_transactions[i].date)

\* The transaction and every history entry carry a calendar date.
WellFormedInput ==
    /\ ValidDate(transaction.date)
    /\ \A i \in 1..Len(all_transactions) : ValidDate(all_transactions[i].date)

InHistory == \E i \in 1..Len(all_transactions) : all_transactions[i] = transaction

\* The key set of section 6 of the specification.
FeatureKeys ==
    {"n_transactions_same_amount", "percent_transactions_same_amount", "is_biweekly",
     "is_semimonthly", "is_monthly", "is_bimonthly", "is_quarterly", "is_annual",
     "avg_days_between_transactions", "min_days_between_transactions",
     "max_days_between_transactions", "std_days_between_transactions",
     "is_major_subscription", "is_telecom_or_insurance", "is_utility_bill",
     "subscription_tier", "is_fixed_amount_recurring", "amount_fluctuation_range",
     "is_small_subscription", "is_mid_sized_subscription", "is_large_recurring_payment",
     "n_similar_transactions_last_3_months", "n_similar_transactions_last_6_months",
     "transaction_day_consistency", "is_first_transaction_with_vendor",
     "is_canceled_or_refunded", "day_of_month", "weekday", "week_of_year", "is_weekend",
     "days_since_last_transaction", "time_since_first_transaction",
     "transaction_frequency", "vendor_popularity", "vendor_category",
     "user_avg_transaction_amount", "user_total_spending", "user_subscription_count",
     "refund_rate", "refund_time_lag", "is_valid_recurring_transaction"}

\* C1: whenever get_features returns, the mapping has exactly the 41 keys of
\* section 6, whichever branch each component took.
C1_ExactKeySet ==
    Returned("get_features") =>
        /\ DOMAIN result = FeatureKeys
        /\ Cardinality(DOMAIN result) = 41

\* C1 witness: get_features returned on a non-empty history without any
\* same-vendor entry (every vendor-filtered component took its default branch).
C1_Witness ==
    /\ Returned("get_features")
    /\ Len(all_transactions) > 0
    /\ SameVendorIdx = {}
    /\ DOMAIN result = FeatureKeys

RefundLike(i) ==
    /\ all_transactions[i].amount = -transaction.amount
    /\ \E word \in {"refund", "reversal", "canceled", "chargeback"} :
          Contains(lower(all_transactions[i].name), word)

\* C3 as stated: is_canceled_or_refunded = 1 iff the history holds a
\* refund-like entry, for every transaction and history.
C3_Original ==
    Returned("get_features") =>
        (result.is_canceled_or_refunded = 1 <=> \E i \in 1..Len(all_transactions) : RefundLike(i))

\* C3 amended: when the history holds an entry with the transaction's name,
\* is_canceled_or_refunded = 1 iff the history holds a refund-like entry (of
\* any vendor); when it holds none, is_canceled_or_refunded = 0.
C3_Amended ==
    Returned("get_features") =>
        /\ result.is_canceled_or_refunded \in {0, 1}
        /\ IF SameVendorIdx = {}
           THEN result.is_canceled_or_refunded = 0
           ELSE result.is_canceled_or_refunded = 1
                    <=> \E i \in 1..Len(all_transactions) : RefundLike(i)

\* C3 witness: the flag is 1 because of a refund entry of another vendor
\* whose keyword is not in lower case.
C3_Witness ==
    /\ Returned("get_features")
    /\ SameVendorIdx # {}
    /\ result.is_canceled_or_refunded = 1
    /\ \A i \in 1..Len(all_transactions) :
          RefundLike(i) => /\ all_transactions[i].name # transaction.name
                           /\ all_transactions[i].name # lower(all_transactions[i].name)

\* C4 as stated: is_valid_recurring_transaction is 1 for the always-recurring
\* vendors, 1 for vendors in neither table, and for "apple" (any case) 1
\* exactly when the fractional part of the amount is 0.98 or 0.99.
C4_Original ==
    Returned("get_features") =>
        LET vendor == lower(transaction.name)
            cents  == transaction.amount
        IN /\ vendor \in {"netflix", "spotify", "microsoft", "amazon prime", "at&t",
                          "verizon", "spectrum", "geico", "hugo insurance"}
                  => result.is_valid_recurring_transaction = 1
           /\ vendor \notin {"netflix", "spotify", "microsoft", "amazon prime", "at&t",
                             "verizon", "spectrum", "geico", "hugo insurance",
                             "apple", "brigit", "cleo ai", "credit genie"}
                  => result.is_valid_recurring_transaction = 1
           /\ vendor = "apple"
                  => (result.is_valid_recurring_transaction = 1
                         <=> (cents >= 0 /\ cents % 100 \in {98, 99}))

\* Gaps between same-vendor dates that are consecutive in ascending order.
ConsecutiveGaps ==
    {OrdinalAt(j) - OrdinalAt(i) : <<i, j>> \in
        {p \in SameVendorIdx \X SameVendorIdx :
            /\ p[1] # p[2]
            /\ OrdinalAt(p[1]) <= OrdinalAt(p[2])
            /\ ~\E k \in SameVendorIdx :
                  OrdinalAt(p[1]) < OrdinalAt(k) /\ OrdinalAt(k) < OrdinalAt(p[2])}}

Flag(window) == IF ConsecutiveGaps \cap window # {} THEN 1 ELSE 0

SameVendorDates == {all_transactions[i].date : i \in SameVendorIdx}

\* C5: with at least two same-vendor entries each cadence flag is 1 iff some
\* consecutive gap of the sorted same-vendor dates lies in its window;
\* is_biweekly = 1 implies is_semimonthly = 1; the dates 2024-01-01,
\* 2024-01-15, 2024-01-29 give is_biweekly = is_semimonthly = 1, average 14
\* and standard deviation 0.
C5_CadenceFlags ==
    (Returned("get_features") /\ Cardinality(SameVendorIdx) >= 2) =>
        /\ result.is_biweekly = Flag({14})
        /\ result.is_semimonthly = Flag({14, 15, 16, 17})
        /\ result.is_monthly = Flag(27..31)
        /\ result.is_bimonthly = Flag(55..65)
        /\ result.is_quarterly = Flag(85..95)
        /\ result.is_annual = Flag(360..370)
        /\ result.is_biweekly = 1 => result.is_semimonthly = 1
        /\ (/\ Cardinality(SameVendorIdx) = 3
            /\ SameVendorDates = {"2024-01-01", "2024-01-15", "2024-01-29"}) =>
              /\ result.is_biweekly = 1
              /\ result.is_semimonthly = 1
              /\ result.avg_days_between_transactions = Rat(14, 1)
              /\ result.std_days_between_transactions = Sqrt(Zero)

\* C5 witness: the three dates of the example, entered out of order.
C5_Witness ==
    /\ Returned("get_features")
    /\ Len(all_transactions) = 3
    /\ SameVendorIdx = {1, 2, 3}
    /\ SameVendorDates = {"2024-01-01", "2024-01-15", "2024-01-29"}
    /\ all_transactions[1].date = "2024-01-29"
    /\ result.is_biweekly = 1
    /\ result.is_monthly = 0

\* C6: below two same-vendor entries the ten periodicity keys are zero, and
\* get_time_based_recurrence_patterns returns them without parsing a date
\* (it returns even when a date of the history is not a calendar date).
C6_FewVendorDefaults ==
    (pc # "input" /\ Cardinality(SameVendorIdx) < 2) =>
        /\ called = "get_time_based_recurrence_patterns" => pc = "returned"
        /\ pc = "returned" =>
              /\ result.is_biweekly = 0
              /\ result.is_semimonthly = 0
              /\ result.is_monthly = 0
              /\ result.is_bimonthly = 0
              /\ result.is_quarterly = 0
              /\ result.is_annual = 0
              /\ result.avg_days_between_transactions = Zero
              /\ result.min_days_between_transactions = 0
              /\ result.max_days_between_transactions = 0
              /\ result.std_days_between_transactions = Sqrt(Zero)

\* C6 witness: the only same-vendor entry carries a text that is not a
\* calendar date and the default record is returned.
C6_Witness ==
    /\ Returned("get_time_based_recurrence_patterns")
    /\ Cardinality(SameVendorIdx) = 1
    /\ \A i \in SameVendorIdx : ~ValidDate(all_transactions[i].date)
    /\ result.max_days_between_transactions = 0

\* Same-vendor entries other than the transaction itself, dated on or before it.
PreviousOccurrences ==
    {i \in SameVendorIdx : /\ all_transactions[i] # transaction
                           /\ OrdinalAt(i) <= ToOrdinal(transaction.date)}

\* C7 as stated: days_since_last_transaction is 0 below two same-vendor
\* entries; for a transaction of the history it is a non-negative day count,
\* the days since the previous occurrence of the vendor (own occurrence
\* excluded).
C7_Original ==
    Returned("get_features") =>
        /\ Cardinality(SameVendorIdx) < 2 => result.days_since_last_transaction = 0
        /\ InHistory => result.days_since_last_transaction >= 0
        /\ (InHistory /\ Cardinality(SameVendorIdx) >= 2 /\ PreviousOccurrences # {}) =>
              \E i \in PreviousOccurrences :
                 /\ \A j \in PreviousOccurrences : OrdinalAt(j) <= OrdinalAt(i)
                 /\ result.days_since_last_transaction
                       = ToOrdinal(transaction.date) - OrdinalAt(i)

\* C8 as stated: for every transaction and history the three size buckets
\* are the amount tests 3.99..14.99, 15..49.99 and >= 50.
C8_Original ==
    Returned("get_features") =>
        /\ result.is_small_subscription = 1
              <=> (399 <= transaction.amount /\ transaction.amount <= 1499)
        /\ result.is_mid_sized_subscription = 1
              <=> (1500 <= transaction.amount /\ transaction.amount <= 4999)
        /\ result.is_large_recurring_payment = 1 <=> transaction.amount >= 5000

\* C8 amended: when the history holds an entry with the transaction's name
\* the three size buckets are the amount tests 3.99..14.99, 15..49.99 and
\* >= 50 on the transaction's amount alone; when it holds none, all three
\* are 0.
C8_Amended ==
    Returned("get_features") =>
        /\ {result.is_small_subscription, result.is_mid_sized_subscription,
            result.is_large_recurring_payment} \subseteq {0, 1}
        /\ IF SameVendorIdx = {}
           THEN /\ result.is_small_subscription = 0
                /\ result.is_mid_sized_subscription = 0
                /\ result.is_large_recurring_payment = 0
           ELSE /\ result.is_small_subscription = 1
                      <=> (399 <= transaction.amount /\ transaction.amount <= 1499)
                /\ result.is_mid_sized_subscription = 1
                      <=> (1500 <= transaction.amount /\ transaction.amount <= 4999)
                /\ result.is_large_recurring_payment = 1 <=> transaction.amount >= 5000

\* C8 witness: an amount on the upper edge of the small bucket, the vendor
\* present in the history with other amounts.
C8_Witness ==
    /\ Returned("get_features")
    /\ transaction.amount = 1499
    /\ \E i \in SameVendorIdx : all_transactions[i].amount # transaction.amount
    /\ result.is_small_subscription = 1
    /\ result.is_mid_sized_subscription = 0

SameVendorAmounts == {all_transactions[i].amount : i \in SameVendorIdx}

\* C9 as stated: is_fixed_amount_recurring = 1 whenever the same-vendor
\* amounts vary by no more than 2% (of their magnitude), in particular
\* whenever they are all equal, of whatever sign.
C9_Original ==
    (Returned("get_features") /\ SameVendorIdx # {}) =>
        /\ Cardinality(SameVendorAmounts) = 1 => result.is_fixed_amount_recurring = 1
        /\ (\A a, b \in SameVendorAmounts : 100 * Abs(a - b) <= 2 * Abs(a))
              => result.is_fixed_amount_recurring = 1

\* C10: 0 <= n_similar_transactions_last_3_months
\* <= n_similar_transactions_last_6_months <= vendor_popularity <= size of
\* the history, vendor_popularity being the number of entries with the
\* transaction's exact name; all three counts are 0 without such an entry.
C10_CountChain ==
    Returned("get_features") =>
        /\ 0 <= result.n_similar_transactions_last_3_months
        /\ result.n_similar_transactions_last_3_months
              <= result.n_similar_transactions_last_6_months
        /\ result.n_similar_transactions_last_6_months <= result.vendor_popularity
        /\ result.vendor_popularity <= Len(all_transactions)
        /\ result.vendor_popularity = Cardinality(SameVendorIdx)
        /\ SameVendorIdx = {} =>
              /\ result.n_similar_transactions_last_3_months = 0
              /\ result.n_similar_transactions_last_6_months = 0
              /\ result.vendor_popularity = 0

\* C10 witness: the chain is strict at every link.
C10_Witness ==
    /\ Returned("get_features")
    /\ 0 < result.n_similar_transactions_last_3_months
    /\ result.n_similar_transactions_last_3_months
          < result.n_similar_transactions_last_6_months
    /\ result.n_similar_transactions_last_6_months < result.vendor_popularity

====
